---- MODULE Spec2Model ----
(***************************************************************************)
(* Model of src/db/db.py (class DB): the four query builders               *)
(* build_select_query, build_insert_query, build_update_query and          *)
(* build_delete_query, the four operations select, insert, update and      *)
(* delete that run a built query, and execute_query.                       *)
(*                                                                         *)
(* A Python str is a sequence of one-character strings, so that slicing    *)
(* (q[:-5]), concatenation and str.join are computed character by          *)
(* character.  A Python dict is a sequence of [k, v] records with unique    *)
(* keys, in insertion order (the order dict.keys() and dict.values()       *)
(* iterate in).                                                            *)
(***************************************************************************)
EXTENDS Integers, Sequences, FiniteSets, TLC

VARIABLES
    values,     \* the caller's dict handed in as `values`
    filters,    \* the caller's dict handed in as `filters`
    op,         \* the method of DB that ran last ("none": none since the dicts changed)
    table,      \* the `table` argument of that call
    q,          \* the query string that call built
    val_ls,     \* the argument list that call built
    cur,        \* what the cursor did with the statement of that call
    executed,   \* the statements that call sent to cur.execute, in order
    ret,        \* the value that call returned
    err,        \* TRUE when that call ended in the exception cur.execute raised
    memo        \* an earlier build result on the same dicts (history)

vars == <<values, filters, op, table, q, val_ls, cur, executed, ret, err, memo>>

(***************************************************************************)
(* Bounds of the model.                                                    *)
(***************************************************************************)
NumCols == 2

\* the two dicts hold at most MaxKeys entries together
MaxKeys == 3

ColumnNames == <<<<"a">>, <<"b">>, <<"c">>, <<"d">>, <<"e">>>>

Columns == {ColumnNames[i] : i \in 1..NumCols}

\* Two distinct opaque scalars; the builders never look inside a value.
Scalars == {"x", "y"}

\* A plain table name, and one that contains the text of a placeholder.
Tables == {<<"T">>, <<"U", "%", "s">>}

(***************************************************************************)
(* String literals of db.py.                                               *)
(***************************************************************************)
PH == <<"%", "s">>
SELECT_FROM == <<"S", "E", "L", "E", "C", "T", " ", "*", " ", "F", "R", "O", "M", " ">>
WHERE == <<" ", "W", "H", "E", "R", "E", " ">>
EQ_PH_AND == <<" ", "=", " ", "%", "s", " ", "A", "N", "D", " ">>
INSERT_INTO == <<"I", "N", "S", "E", "R", "T", " ", "I", "N", "T", "O", " ">>
SP == <<" ">>
LPAR == <<"(">>
RPAR == <<")">>
COMMA == <<",", " ">>
VALUES == <<" ", "V", "A", "L", "U", "E", "S", " ">>
UPDATE == <<"U", "P", "D", "A", "T", "E", " ">>
SET == <<" ", "S", "E", "T", " ">>
EQ_PH == <<" ", "=", " ", "%", "s">>
AND == <<" ", "A", "N", "D", " ">>
DELETE_FROM == <<"D", "E", "L", "E", "T", "E", " ", "F", "R", "O", "M", " ">>

(***************************************************************************)
(* Python built-ins the code uses.                                         *)
(***************************************************************************)
None == [type |-> "NoneType"]

PyInt(n) == [type |-> "int", val |-> n]

PyList(l) == [type |-> "list", val |-> l]

\* dict.keys(): the keys in insertion order
keys(d) == [i \in 1..Len(d) |-> d[i].k]

\* dict.values(): the values in insertion order
vals(d) == [i \in 1..Len(d) |-> d[i].v]

\* dict.get(k): the value stored under k, None when there is none
get(d, k) ==
    IF \E i \in 1..Len(d) : d[i].k = k
    THEN d[CHOOSE i \in 1..Len(d) : d[i].k = k].v
    ELSE None

\* d[k] = v: an existing key keeps its place, a new key goes last
setitem(d, k, v) ==
    IF \E i \in 1..Len(d) : d[i].k = k
    THEN [i \in 1..Len(d) |-> IF d[i].k = k THEN [k |-> k, v |-> v] ELSE d[i]]
    ELSE Append(d, [k |-> k, v |-> v])

\* bool(d): a dict is true when it is not empty
truthy(d) == Len(d) > 0

\* sep.join(parts)
RECURSIVE join(_, _)
join(sep, parts) ==
    IF Len(parts) = 0 THEN <<>>
    ELSE IF Len(parts) = 1 THEN parts[1]
    ELSE parts[1] \o sep \o join(sep, Tail(parts))

\* s[:-n]
DropLast(s, n) == IF Len(s) <= n THEN <<>> ELSE SubSeq(s, 1, Len(s) - n)

(***************************************************************************)
(* The builders.                                                           *)
(***************************************************************************)
\* the for loop of build_select_query over the keys ks still to visit
RECURSIVE SelectLoop(_, _, _)
SelectLoop(d, ks, acc) ==
    IF Len(ks) = 0 THEN acc
    ELSE SelectLoop(d, Tail(ks),
                    [q      |-> acc.q \o Head(ks) \o EQ_PH_AND,
                     val_ls |-> Append(acc.val_ls, get(d, Head(ks)))])

\* faulty variant: the slice q[:-4] leaves a blank at the end
build_select_query_strip4(t, f) ==
    LET q0 == SELECT_FROM \o t
    IN  IF truthy(f)
        THEN LET r == SelectLoop(f, keys(f), [q |-> q0 \o WHERE, val_ls |-> <<>>])
             IN  [q |-> DropLast(r.q, 4), val_ls |-> r.val_ls]
        ELSE [q |-> q0, val_ls |-> <<>>]

build_select_query(t, f) ==
    LET q0 == SELECT_FROM \o t
    IN  IF truthy(f)
        THEN LET r == SelectLoop(f, keys(f), [q |-> q0 \o WHERE, val_ls |-> <<>>])
             IN  [q |-> DropLast(r.q, 5), val_ls |-> r.val_ls]
        ELSE [q |-> q0, val_ls |-> <<>>]

\* faulty variant: the columns are joined by "," and not by ", "
build_insert_query_tight(t, v) ==
    LET q0 == INSERT_INTO \o t \o SP
        k  == LPAR \o join(<<",">>, keys(v)) \o RPAR
        ph == LPAR \o join(COMMA, [i \in 1..Len(keys(v)) |-> PH]) \o RPAR
    IN  [q |-> q0 \o k \o VALUES \o ph, val_ls |-> vals(v)]

build_insert_query(t, v) ==
    LET q0 == INSERT_INTO \o t \o SP
        k  == LPAR \o join(COMMA, keys(v)) \o RPAR
        ph == LPAR \o join(COMMA, [i \in 1..Len(keys(v)) |-> PH]) \o RPAR
    IN  [q |-> q0 \o k \o VALUES \o ph, val_ls |-> vals(v)]

\* faulty variant: the arguments of the filters come first
build_update_query_filters_first(t, v, f) ==
    LET q0 == UPDATE \o t \o SET
                \o join(COMMA, [i \in 1..Len(keys(v)) |-> keys(v)[i] \o EQ_PH])
        l0 == vals(v)
    IN  IF truthy(f)
        THEN [q      |-> q0 \o WHERE
                          \o join(AND, [i \in 1..Len(keys(f)) |-> keys(f)[i] \o EQ_PH]),
              val_ls |-> vals(f) \o l0]
        ELSE [q |-> q0, val_ls |-> l0]

\* faulty variant: no test of filters, the WHERE is always written
build_update_query_always_where(t, v, f) ==
    LET q0 == UPDATE \o t \o SET
                \o join(COMMA, [i \in 1..Len(keys(v)) |-> keys(v)[i] \o EQ_PH])
        l0 == vals(v)
    IN  [q      |-> q0 \o WHERE
                      \o join(AND, [i \in 1..Len(keys(f)) |-> keys(f)[i] \o EQ_PH]),
         val_ls |-> l0 \o vals(f)]

\* faulty variant: the SET clause is left out when values is empty
build_update_query_set_guarded(t, v, f) ==
    LET q0 == IF truthy(v)
              THEN UPDATE \o t \o SET
                     \o join(COMMA, [i \in 1..Len(keys(v)) |-> keys(v)[i] \o EQ_PH])
              ELSE UPDATE \o t
        l0 == vals(v)
    IN  IF truthy(f)
        THEN [q      |-> q0 \o WHERE
                          \o join(AND, [i \in 1..Len(keys(f)) |-> keys(f)[i] \o EQ_PH]),
              val_ls |-> l0 \o vals(f)]
        ELSE [q |-> q0, val_ls |-> l0]

build_update_query(t, v, f) ==
    LET q0 == UPDATE \o t \o SET
                \o join(COMMA, [i \in 1..Len(keys(v)) |-> keys(v)[i] \o EQ_PH])
        l0 == vals(v)
    IN  IF truthy(f)
        THEN [q      |-> q0 \o WHERE
                          \o join(AND, [i \in 1..Len(keys(f)) |-> keys(f)[i] \o EQ_PH]),
              val_ls |-> l0 \o vals(f)]
        ELSE [q |-> q0, val_ls |-> l0]

\* faulty variant: val_ls is not filled from the filters
build_delete_query_no_args(t, f) ==
    LET q0 == DELETE_FROM \o t
    IN  IF truthy(f)
        THEN [q      |-> q0 \o WHERE
                          \o join(AND, [i \in 1..Len(keys(f)) |-> keys(f)[i] \o EQ_PH]),
              val_ls |-> <<>>]
        ELSE [q |-> q0, val_ls |-> <<>>]

\* faulty variant: the filters are joined by ", " as in a SET clause
build_delete_query_commas(t, f) ==
    LET q0 == DELETE_FROM \o t
    IN  IF truthy(f)
        THEN [q      |-> q0 \o WHERE
                          \o join(COMMA, [i \in 1..Len(keys(f)) |-> keys(f)[i] \o EQ_PH]),
              val_ls |-> vals(f)]
        ELSE [q |-> q0, val_ls |-> <<>>]

build_delete_query(t, f) ==
    LET q0 == DELETE_FROM \o t
    IN  IF truthy(f)
        THEN [q      |-> q0 \o WHERE
                          \o join(AND, [i \in 1..Len(keys(f)) |-> keys(f)[i] \o EQ_PH]),
              val_ls |-> vals(f)]
        ELSE [q |-> q0, val_ls |-> <<>>]

(***************************************************************************)
(* The executor.  resp is what the cursor does with the statement: it      *)
(* raises (ok = FALSE), or cur.execute returns resp.count and              *)
(* cur.fetchall() returns resp.rows.                                       *)
(***************************************************************************)
Responses ==
    { [ok |-> FALSE, count |-> 0, rows |-> <<>>],
      [ok |-> TRUE,  count |-> 0, rows |-> <<>>],
      [ok |-> TRUE,  count |-> 1, rows |-> <<>>],
      [ok |-> TRUE,  count |-> 1, rows |-> <<"row">>] }

\* faulty variant: the test of ret_result is inverted
execute_query_inverted(query, args, ret_result, resp) ==
    LET calls == <<[query |-> query, args |-> args, ret_result |-> ret_result]>>
    IN  IF ~resp.ok
        THEN [executed |-> calls, raised |-> TRUE, ret |-> [type |-> "NoneType"]]
        ELSE IF ~ret_result
        THEN [executed |-> calls, raised |-> FALSE, ret |-> [type |-> "list", val |-> resp.rows]]
        ELSE [executed |-> calls, raised |-> FALSE, ret |-> [type |-> "int", val |-> resp.count]]

execute_query(query, args, ret_result, resp) ==
    LET calls == <<[query |-> query, args |-> args, ret_result |-> ret_result]>>
    IN  IF ~resp.ok
        THEN [executed |-> calls, raised |-> TRUE, ret |-> None]
        ELSE IF ret_result
        THEN [executed |-> calls, raised |-> FALSE, ret |-> PyList(resp.rows)]
        ELSE [executed |-> calls, raised |-> FALSE, ret |-> PyInt(resp.count)]

(***************************************************************************)
(* State after construction: the connection is open, nothing has run, and  *)
(* the caller's dicts are empty.                                           *)
(***************************************************************************)
Init ==
    /\ values = <<>>
    /\ filters = <<>>
    /\ op = "none"
    /\ table = <<>>
    /\ q = <<>>
    /\ val_ls = <<>>
    /\ cur = None
    /\ executed = <<>>
    /\ ret = None
    /\ err = FALSE
    /\ memo = None

\* the caller drops the last result when it changes a dict for the next call
Discard ==
    /\ op' = "none"
    /\ table' = <<>>
    /\ q' = <<>>
    /\ val_ls' = <<>>
    /\ cur' = None
    /\ executed' = <<>>
    /\ ret' = None
    /\ err' = FALSE
    /\ memo' = None

\* the caller runs values[k] = v
SetValue(k, v) ==
    /\ setitem(values, k, v) # values
    /\ Len(setitem(values, k, v)) + Len(filters) <= MaxKeys
    /\ values' = setitem(values, k, v)
    /\ UNCHANGED filters
    /\ Discard

\* the caller runs filters[k] = v
SetFilter(k, v) ==
    /\ setitem(filters, k, v) # filters
    /\ Len(values) + Len(setitem(filters, k, v)) <= MaxKeys
    /\ filters' = setitem(filters, k, v)
    /\ UNCHANGED values
    /\ Discard

\* a static call of a builder: nothing is executed
Built(name, t, b) ==
    /\ op' = name
    /\ table' = t
    /\ q' = b.q
    /\ val_ls' = b.val_ls
    /\ cur' = None
    /\ executed' = <<>>
    /\ ret' = None
    /\ err' = FALSE
    /\ UNCHANGED <<values, filters, memo>>

BuildSelect(t) == Built("build_select_query", t, build_select_query(t, filters))

BuildInsert(t) == Built("build_insert_query", t, build_insert_query(t, values))

\* faulty variant: the builder appends to a list that outlives the call
BuildUpdate_shared_list(t) ==
    LET b == build_update_query(t, values, filters)
    IN  Built("build_update_query", t, [q |-> b.q, val_ls |-> val_ls \o b.val_ls])

BuildUpdate(t) == Built("build_update_query", t, build_update_query(t, values, filters))

BuildDelete(t) == Built("build_delete_query", t, build_delete_query(t, filters))

\* a method that builds a query b and hands it to execute_query, returning r
Ran(name, t, b, resp, r) ==
    /\ op' = name
    /\ cur' = resp
    /\ table' = t
    /\ q' = b.q
    /\ val_ls' = b.val_ls
    /\ executed' = r.executed
    /\ ret' = r.ret
    /\ err' = r.raised
    /\ UNCHANGED <<values, filters, memo>>

select(t, resp) ==
    LET b == build_select_query(t, filters)
    IN  Ran("select", t, b, resp, execute_query(b.q, b.val_ls, TRUE, resp))

insert(t, resp) ==
    LET b == build_insert_query(t, values)
    IN  Ran("insert", t, b, resp, execute_query(b.q, b.val_ls, FALSE, resp))

\* faulty variant: a statement that failed is sent a second time
update_retry(t, resp) ==
    LET b == build_update_query(t, values, filters)
        r == execute_query(b.q, b.val_ls, FALSE, resp)
    IN  Ran("update", t, b, resp,
            IF r.raised THEN [r EXCEPT !.executed = r.executed \o r.executed] ELSE r)

update(t, resp) ==
    LET b == build_update_query(t, values, filters)
    IN  Ran("update", t, b, resp, execute_query(b.q, b.val_ls, FALSE, resp))

delete(t, resp) ==
    LET b == build_delete_query(t, filters)
    IN  Ran("delete", t, b, resp, execute_query(b.q, b.val_ls, FALSE, resp))

Next ==
    \/ \E k \in Columns, v \in Scalars : SetValue(k, v)
    \/ \E k \in Columns, v \in Scalars : SetFilter(k, v)
    \/ \E t \in Tables : BuildSelect(t)
    \/ \E t \in Tables : BuildInsert(t)
    \/ \E t \in Tables : BuildUpdate(t)
    \/ \E t \in Tables : BuildDelete(t)
    \/ \E t \in Tables, resp \in Responses : select(t, resp)
    \/ \E t \in Tables, resp \in Responses : insert(t, resp)
    \/ \E t \in Tables, resp \in Responses : update(t, resp)
    \/ \E t \in Tables, resp \in Responses : delete(t, resp)

Spec == Init /\ [][Next]_vars

(***************************************************************************)
(* History for the comparison of two calls: Remember keeps the result of   *)
(* the builder call that has just returned, with the dicts it was given.   *)
(***************************************************************************)
IsBuilder(name) ==
    name \in {"build_select_query", "build_insert_query",
              "build_update_query", "build_delete_query"}

Remember ==
    /\ IsBuilder(op)
    /\ memo.type = "NoneType"
    /\ memo' = [type |-> "memo", op |-> op, table |-> table, values |-> values,
                filters |-> filters, q |-> q, val_ls |-> val_ls]
    /\ UNCHANGED <<values, filters, op, table, q, val_ls, cur, executed, ret, err>>

\* between two builder calls the statements of the methods go through
IdemResponses == {resp \in Responses : resp.ok /\ resp.rows # <<>>}

NextIdem ==
    \/ \E k \in Columns, v \in Scalars : SetValue(k, v)
    \/ \E k \in Columns, v \in Scalars : SetFilter(k, v)
    \/ \E t \in Tables : BuildSelect(t)
    \/ \E t \in Tables : BuildInsert(t)
    \/ \E t \in Tables : BuildUpdate(t)
    \/ \E t \in Tables : BuildDelete(t)
    \/ \E t \in Tables, resp \in IdemResponses : select(t, resp)
    \/ \E t \in Tables, resp \in IdemResponses : insert(t, resp)
    \/ \E t \in Tables, resp \in IdemResponses : update(t, resp)
    \/ \E t \in Tables, resp \in IdemResponses : delete(t, resp)
    \/ Remember

SpecIdem == Init /\ [][NextIdem]_vars

(***************************************************************************)
(* Reading a query string back: the text of a query is taken apart here    *)
(* without any use of the builders.                                        *)
(***************************************************************************)
IsAt(s, i, p) ==
    /\ i >= 1
    /\ i + Len(p) - 1 <= Len(s)
    /\ SubSeq(s, i, i + Len(p) - 1) = p

Occurrences(s, p) == {i \in 1..Len(s) : IsAt(s, i, p)}

Contains(s, p) == Occurrences(s, p) # {}

Least(S) == CHOOSE i \in S : \A j \in S : i <= j

Greatest(S) == CHOOSE i \in S : \A j \in S : j <= i

\* the number of placeholders in the text s
CountPH(s) == Cardinality(Occurrences(s, PH))

\* where the n-th placeholder of s starts
NthPH(s, n) ==
    CHOOSE i \in Occurrences(s, PH) :
        Cardinality({j \in Occurrences(s, PH) : j < i}) = n - 1

StartsWith(s, p) == IsAt(s, 1, p)

EndsWith(s, p) == IsAt(s, Len(s) - Len(p) + 1, p)

\* s without its first n characters
After(s, n) == SubSeq(s, n + 1, Len(s))

\* the pieces of s between the occurrences of sep, left to right
RECURSIVE Split(_, _)
Split(s, sep) ==
    IF ~Contains(s, sep) THEN <<s>>
    ELSE LET i == Least(Occurrences(s, sep))
         IN  <<SubSeq(s, 1, i - 1)>> \o Split(After(s, i + Len(sep) - 1), sep)

\* the "k = %s" term of every entry of the dict d, in d's order
Terms(d) == [i \in 1..Len(d) |-> d[i].k \o EQ_PH]

\* the values of the dict d, in d's order
Args(d) == [i \in 1..Len(d) |-> d[i].v]

\* neither the table name nor a key of the dicts holds the text of a placeholder
PlainNames ==
    /\ ~Contains(table, PH)
    /\ \A i \in 1..Len(values) : ~Contains(values[i].k, PH)
    /\ \A i \in 1..Len(filters) : ~Contains(filters[i].k, PH)

Called == op # "none"

(***************************************************************************)
(* The claims.                                                             *)
(***************************************************************************)

\* C2 as stated: after any call, on any table and any dicts (empty ones
\* included), the number of placeholders in the query string equals the
\* length of the argument list.
C2_ArityOnAnyInput == Called => CountPH(q) = Len(val_ls)

\* C2 amended: after any call whose table name and keys do not hold the text
\* of a placeholder, on any dicts (empty ones included), the number of
\* placeholders in the query string equals the length of the argument list.
C2_Arity == (Called /\ PlainNames) => CountPH(q) = Len(val_ls)

\* an update of two columns filtered on one: three placeholders, three arguments
C2_Witness ==
    /\ op = "build_update_query"
    /\ PlainNames
    /\ Len(values) = 2
    /\ Len(filters) = 1
    /\ CountPH(q) = 3

\* the shape of a select query, but for its count of placeholders
SelectShape ==
    IF filters = <<>>
    THEN q = SELECT_FROM \o table /\ val_ls = <<>>
    ELSE LET head == SELECT_FROM \o table \o WHERE
         IN  /\ StartsWith(q, head)
             /\ Split(After(q, Len(head)), AND) = Terms(filters)
             /\ val_ls = Args(filters)

IsSelect == op \in {"build_select_query", "select"}

\* C3 as stated: build_select_query(T, {}) is ("SELECT * FROM T", []); for a
\* non-empty F the string is "SELECT * FROM T WHERE " and then one "k = %s"
\* term per key of F in F's order, joined by " AND " with none trailing, it
\* holds exactly len(F) placeholders, and the arguments are F's values in
\* the same order.
C3_SelectExactlyLenPlaceholders ==
    IsSelect => (SelectShape /\ (filters # <<>> => CountPH(q) = Len(filters)))

\* C3 amended: as stated, with "exactly len(F) placeholders" claimed only of
\* a table name and keys that do not hold the text of a placeholder.
C3_Select ==
    IsSelect => (SelectShape /\ ((filters # <<>> /\ PlainNames) => CountPH(q) = Len(filters)))

\* a select on two filters whose values differ
C3_Witness ==
    /\ op = "build_select_query"
    /\ PlainNames
    /\ Len(filters) = 2
    /\ filters[1].v # filters[2].v
    /\ val_ls = <<filters[1].v, filters[2].v>>

HasKey(d, k) == \E i \in 1..Len(d) : d[i].k = k

Lookup(d, k) == d[CHOOSE i \in 1..Len(d) : d[i].k = k].v

\* the column name written right before " = " and the placeholder at p
ColumnBefore(s, p) ==
    IF p >= 5 /\ IsAt(s, p - 3, <<" ", "=", " ">>)
    THEN SubSeq(s, Greatest({j \in 1..(p - 4) : j = 1 \/ s[j - 1] = " "}), p - 4)
    ELSE <<>>

IsInsert == op \in {"build_insert_query", "insert"}

IsUpdate == op \in {"build_update_query", "update"}

IsDelete == op \in {"build_delete_query", "delete"}

\* the dict a placeholder at p takes its value from: values in an insert and
\* before the WHERE of an update, filters everywhere else
DictAt(p) ==
    IF IsInsert THEN values
    ELSE IF IsUpdate /\ ~(\E w \in Occurrences(q, WHERE) : w < p) THEN values
    ELSE filters

\* "k = %s": the n-th placeholder follows a column whose value is val_ls[n]
BoundByTerm(n) ==
    LET p == NthPH(q, n)
        c == ColumnBefore(q, p)
    IN  /\ HasKey(DictAt(p), c)
        /\ Lookup(DictAt(p), c) = val_ls[n]

\* "(k1, k2) VALUES (%s, %s)": the n-th placeholder is the n-th entry of the
\* VALUES list and the n-th column of the column list has the value val_ls[n]
BoundByPosition(n) ==
    LET p    == NthPH(q, n)
        cols == Split(SubSeq(q, Least(Occurrences(q, LPAR)) + 1,
                                Least(Occurrences(q, RPAR)) - 1), COMMA)
        open == VALUES \o LPAR
    IN  /\ Contains(q, open)
        /\ p = Least(Occurrences(q, open)) + Len(open) + (n - 1) * (Len(PH) + Len(COMMA))
        /\ n <= Len(cols)
        /\ HasKey(values, cols[n])
        /\ Lookup(values, cols[n]) = val_ls[n]

PlaceholdersBound ==
    \A n \in 1..CountPH(q) :
        /\ n <= Len(val_ls)
        /\ IF IsInsert THEN BoundByPosition(n) ELSE BoundByTerm(n)

\* C1 as stated: after any call, for any table and any dicts, the n-th
\* placeholder of the query string is the one attached to the column whose
\* value is the n-th element of the argument list.
C1_OrderOnAnyInput == Called => PlaceholdersBound

\* C1 amended: after any call whose table name and keys do not hold the text
\* of a placeholder, the n-th placeholder of the query string is the one
\* attached to the column whose value is the n-th element of the argument list.
C1_Order == (Called /\ PlainNames) => PlaceholdersBound

\* an update whose values and filters name the same column with different
\* values: the first placeholder takes the new value, the last the old one
C1_Witness ==
    /\ op = "build_update_query"
    /\ PlainNames
    /\ Len(values) = 1
    /\ Len(filters) = 2
    /\ values[1].k = filters[2].k
    /\ values[1].v # filters[2].v
    /\ filters[1].v # filters[2].v
    /\ CountPH(q) = 3

UpdateShape ==
    LET head  == UPDATE \o table \o SET
        parts == Split(After(q, Len(head)), WHERE)
    IN  /\ StartsWith(q, head)
        /\ Len(parts) = (IF filters = <<>> THEN 1 ELSE 2)
        /\ Split(parts[1], COMMA) = Terms(values)
        /\ filters # <<>> => Split(parts[2], AND) = Terms(filters)
        /\ val_ls = Args(values) \o Args(filters)

\* C4: build_update_query(T, V, F) with V non-empty: the string is
\* "UPDATE T SET " and V's "k = %s" terms joined by ", "; " WHERE " and F's
\* terms joined by " AND " follow if and only if F is non-empty; the arguments
\* are V's values in V's order and then F's values in F's order, also when V
\* and F share column names.
C4_Update == (IsUpdate /\ values # <<>>) => UpdateShape

\* V and F share a column, under different values
C4_Witness ==
    /\ op = "build_update_query"
    /\ Len(values) = 2
    /\ Len(filters) = 1
    /\ values[2].k = filters[1].k
    /\ values[2].v # filters[1].v
    /\ val_ls = <<values[1].v, values[2].v, filters[1].v>>

DeleteShape ==
    IF filters = <<>>
    THEN q = DELETE_FROM \o table /\ val_ls = <<>>
    ELSE LET head == DELETE_FROM \o table \o WHERE
         IN  /\ StartsWith(q, head)
             /\ Split(After(q, Len(head)), AND) = Terms(filters)
             /\ val_ls = Args(filters)

\* C5: build_delete_query(T, {}) is ("DELETE FROM T", []), with no WHERE; for
\* a non-empty F the string is "DELETE FROM T WHERE " and F's "f = %s" terms
\* joined by " AND ", and the arguments are F's values in F's order.
C5_Delete == IsDelete => DeleteShape

\* a delete on two filters whose values differ
C5_Witness ==
    /\ op = "build_delete_query"
    /\ Len(filters) = 2
    /\ filters[1].v # filters[2].v
    /\ EndsWith(q, AND \o filters[2].k \o EQ_PH)

InsertShape ==
    LET head  == INSERT_INTO \o table \o SP \o LPAR
        parts == Split(SubSeq(q, Len(head) + 1, Len(q) - 1), RPAR \o VALUES \o LPAR)
    IN  /\ StartsWith(q, head)
        /\ EndsWith(q, RPAR)
        /\ Len(parts) = 2
        /\ Split(parts[1], COMMA) = [i \in 1..Len(values) |-> values[i].k]
        /\ Split(parts[2], COMMA) = [i \in 1..Len(values) |-> PH]
        /\ val_ls = Args(values)

\* C6: build_insert_query(T, V) with V non-empty: the string is
\* "INSERT INTO T (k1, k2, ...) VALUES (%s, %s, ...)", the column list and the
\* placeholder list both of length len(V), the columns in V's order, and the
\* arguments are V's values in the same order.
C6_Insert == (IsInsert /\ values # <<>>) => InsertShape

\* an insert of two columns whose values differ
C6_Witness ==
    /\ op = "build_insert_query"
    /\ Len(values) = 2
    /\ values[1].v # values[2].v
    /\ val_ls = <<values[1].v, values[2].v>>

IsMethod == op \in {"select", "insert", "update", "delete"}

\* C7: select runs its query with ret_result = True and returns the rows the
\* cursor fetched; insert, update and delete run theirs with ret_result =
\* False and return the count cur.execute gave; execute_query returns the
\* rows exactly when the flag is True and the count exactly when it is False.
C7_Modes ==
    IsMethod =>
        /\ Len(executed) >= 1
        /\ executed[1].query = q
        /\ executed[1].args = val_ls
        /\ executed[1].ret_result = (op = "select")
        /\ ~err =>
              IF executed[1].ret_result
              THEN ret.type = "list" /\ ret.val = cur.rows
              ELSE ret.type = "int" /\ ret.val = cur.count

\* a select that returns the one row fetched, not the count
C7_Witness ==
    /\ op = "select"
    /\ ~err
    /\ cur.count = 1
    /\ ret.type = "list"
    /\ ret.val = <<"row">>

\* the Query the builder of the method op returns on the state's arguments
QueryOf(o) ==
    CASE o = "select" -> build_select_query(table, filters)
      [] o = "insert" -> build_insert_query(table, values)
      [] o = "update" -> build_update_query(table, values, filters)
      [] o = "delete" -> build_delete_query(table, filters)

\* C9: a call of select, insert, update or delete sends exactly one statement
\* to the executor, the (string, arguments) pair its builder returned; when
\* the executor fails the call ends in that error, with nothing returned and
\* no second statement.
C9_ExecutedOnce ==
    IsMethod =>
        /\ Len(executed) = 1
        /\ executed[1].query = QueryOf(op).q
        /\ executed[1].args = QueryOf(op).val_ls
        /\ err = ~cur.ok
        /\ err => ret.type = "NoneType"

\* an update of one column under two filters that the executor refused
C9_Witness ==
    /\ op = "update"
    /\ err
    /\ ~cur.ok
    /\ Len(executed) = 1
    /\ Len(executed[1].args) = 3

\* " SET " with the end of the text or " WHERE " right after it
EmptySetClause(s) ==
    \E i \in Occurrences(s, SET) :
        \/ i + Len(SET) - 1 = Len(s)
        \/ IsAt(s, i + Len(SET), WHERE)

\* a comma with nothing listed after it
TrailingComma(s) ==
    \E i \in 1..Len(s) :
        /\ s[i] = ","
        /\ \/ i = Len(s)
           \/ s[i + 1] = ")"
           \/ s[i + 1] = " " /\ (i + 1 = Len(s) \/ s[i + 2] \in {")", " "})

EmptyValuesBuilt ==
    /\ op \in {"build_insert_query", "build_update_query"}
    /\ values = <<>>

\* C10 as stated: build_insert_query(T, {}) and build_update_query(T, {}, F)
\* return without raising, the query returned is an invalid one (a trailing
\* comma or an empty SET clause), and the arguments are F's values for update
\* and none for insert.
C10_EmptyValuesBroken ==
    EmptyValuesBuilt =>
        /\ ~err
        /\ TrailingComma(q) \/ EmptySetClause(q)
        /\ val_ls = (IF IsUpdate THEN Args(filters) ELSE <<>>)

\* C10 amended: both return without raising; the update query has an empty
\* SET clause and F's values as arguments; the insert query is
\* "INSERT INTO T () VALUES ()", an empty column list and an empty
\* placeholder list with no trailing comma and no SET clause, and it has no
\* arguments.
C10_EmptyValues ==
    EmptyValuesBuilt =>
        /\ ~err
        /\ IsUpdate => (EmptySetClause(q) /\ val_ls = Args(filters))
        /\ IsInsert =>
              /\ q = INSERT_INTO \o table \o SP \o LPAR \o RPAR \o VALUES \o LPAR \o RPAR
              /\ ~TrailingComma(q)
              /\ ~EmptySetClause(q)
              /\ val_ls = <<>>

\* an update with no values and two filters
C10_Witness ==
    /\ op = "build_update_query"
    /\ values = <<>>
    /\ Len(filters) = 2
    /\ Contains(q, SET \o WHERE)
    /\ Len(val_ls) = 2

\* the builder a call runs
BuilderOf(o) ==
    CASE o \in {"build_select_query", "select"} -> "build_select_query"
      [] o \in {"build_insert_query", "insert"} -> "build_insert_query"
      [] o \in {"build_update_query", "update"} -> "build_update_query"
      [] o \in {"build_delete_query", "delete"} -> "build_delete_query"
      [] OTHER -> "none"

====
